---- MODULE Spec2Model ----
(***************************************************************************)
(* Model of logic_puzzle.py: the LogicPuzzle possibility graph, its        *)
(* primitive mutators mark_false / mark_true, the clue rules neither_nor,  *)
(* either_or, pairs, mutually_exclusive and delta_comparison, the          *)
(* structural pass _reduce_graph and the fixed-point loop execute_rules.   *)
(*                                                                         *)
(* Items are integers (the ordinal category needs arithmetic), category    *)
(* names are strings.  An edge of the networkx graph _G is the set of its  *)
(* two end points.  A Python exception (a failed assert, a KeyError, a     *)
(* ValueError of min([])) is the flag err of a puzzle state: once it is    *)
(* set, the rest of the operation is skipped, as the exception unwinds.    *)
(***************************************************************************)
EXTENDS Integers, Sequences, FiniteSets, TLC

VARIABLES
    input,               \* the arguments handed to LogicPuzzle(...)
    pc,                  \* "new", "setup", "rules", "done", "error", "rejected"
    items,               \* self._items: the categories, in dict order
    G,                   \* self._G: the set of edges
    answers,             \* self._answers
    rules,               \* self._rules
    idx,                 \* execute_rules: index of the next rule of this round
    current_edge_count,  \* execute_rules: the local current_edge_count
    history,             \* edge_count at the start of every round of execute_rules
    start,               \* the puzzle state execute_rules started from
    last,                \* the call that produced this state, with its arguments
    pre,                 \* the graph and the answers that call started from
    ret,                 \* <<what that call returned>> (mark_false), else <<>>
    nOps                 \* number of direct mark_false / mark_true calls so far

vars == <<input, pc, items, G, answers, rules, idx, current_edge_count,
          history, start, last, pre, ret, nOps>>

-----------------------------------------------------------------------------
(* Bounds of the model *)

\* calls made on a constructed puzzle before execute_rules: direct calls of
\* mark_false / mark_true plus calls of add_rule
MaxSetup == 2

-----------------------------------------------------------------------------
(* Values *)

\* Python's None: the unresolved marker of the Answer Map (items are > 0)
None == 0

\* the string standing for "no ordinal category named" (ordinal_category=None)
NoOrdinal == "None"

\* current_edge_count = 1e9
Infinity == 1000000000

Cat(name, its) == [name |-> name, items |-> its]

\* Construction inputs: the categories dict (in insertion order) and
\* ordinal_category.
Categories3x2 == <<Cat("A", <<1, 2>>), Cat("B", <<11, 12>>), Cat("N", <<21, 22>>)>>
Categories3x3 == <<Cat("A", <<1, 2, 3>>), Cat("B", <<11, 12, 13>>), Cat("N", <<21, 22, 24>>)>>
Categories2x3 == <<Cat("A", <<1, 2, 3>>), Cat("N", <<23, 21, 22>>)>>
Categories1x2 == <<Cat("A", <<1, 2>>)>>
CategoriesUnequal == <<Cat("A", <<1, 2>>), Cat("B", <<11, 12, 13>>)>>
\* inputs the asserts of __init__ let through: an identifier in two
\* categories, an identifier twice in one category
CategoriesShared == <<Cat("A", <<1, 2, 3>>), Cat("N", <<1, 22, 23>>)>>
CategoriesRepeated == <<Cat("A", <<1, 1, 2>>), Cat("N", <<21, 22, 23>>)>>

Inputs ==
    {[categories |-> c, ordinal_category |-> "N"] :
        c \in {Categories3x2, Categories3x3, Categories2x3,
               CategoriesShared, CategoriesRepeated}}
    \cup {[categories |-> Categories1x2, ordinal_category |-> "A"],
          [categories |-> Categories3x2, ordinal_category |-> "Z"],
          [categories |-> Categories3x2, ordinal_category |-> NoOrdinal],
          [categories |-> CategoriesUnequal, ordinal_category |-> "A"],
          [categories |-> CategoriesUnequal, ordinal_category |-> "Z"]}

\* Construction inputs without items: categories that hold none, and no
\* category at all
CategoriesEmpty == <<Cat("A", <<>>), Cat("N", <<>>)>>
NoCategories == <<>>

EmptyInputs ==
    {[categories |-> CategoriesEmpty, ordinal_category |-> "N"],
     [categories |-> NoCategories, ordinal_category |-> "N"]}

SeqToSet(s) == {s[i] : i \in 1..Len(s)}

Min(S) == CHOOSE x \in S : \A y \in S : x <= y
Max(S) == CHOOSE x \in S : \A y \in S : x >= y

-----------------------------------------------------------------------------
(* Construction: LogicPuzzle.__init__ *)

Keys(categories) == {categories[i].name : i \in 1..Len(categories)}

\* the two asserts of __init__
ConfigOk(categories, ordinal_category) ==
    /\ Cardinality({Len(categories[i].items) : i \in 1..Len(categories)}) = 1
    /\ ordinal_category \in Keys(categories)

\* self._all_items
AllItemsOf(categories) ==
    UNION {SeqToSet(categories[i].items) : i \in 1..Len(categories)}

\* self._answers after the loop of __init__: a later category overwrites the
\* entry of an item an earlier category also holds
InitAnswers(categories) ==
    [item \in AllItemsOf(categories) |->
        LET k == Max({i \in 1..Len(categories) : item \in SeqToSet(categories[i].items)})
        IN  [e \in Keys(categories) \ {categories[k].name} |-> None]]

\* the edges added by the nested loops of __init__ (lists i < j only); an
\* identifier two lists share gets an edge to itself
InitEdges(categories) ==
    UNION {{{node1, node2} : node1 \in SeqToSet(categories[p[1]].items),
                             node2 \in SeqToSet(categories[p[2]].items)} :
           p \in {q \in (1..Len(categories)) \X (1..Len(categories)) : q[1] < q[2]}}

-----------------------------------------------------------------------------
(* Query layer.  A puzzle state s is [G, answers, err]. *)

\* The categories never change after construction, so what the code computes
\* from self._items by looping is tabulated once per construction input.
\* (f @@ <<>> is f, written out as an explicit table.)
Tabulate(f) == f @@ <<>>

\* self._items[category] as the list it is
ItemListOf(categories, category) ==
    categories[CHOOSE i \in 1..Len(categories) : categories[i].name = category].items

\* _category(node) on the categories: the first category holding node
FirstCategoryOf(categories, node) ==
    categories[Min({i \in 1..Len(categories) :
                       node \in SeqToSet(categories[i].items)})].name

AllCategories == {i.categories : i \in Inputs \cup EmptyInputs}

ItemSetTable ==
    Tabulate([c \in AllCategories |->
        Tabulate([k \in Keys(c) |-> SeqToSet(ItemListOf(c, k))])])

AllItemsTable == Tabulate([c \in AllCategories |-> AllItemsOf(c)])

CategoryTable ==
    Tabulate([c \in AllCategories |->
        Tabulate([node \in AllItemsOf(c) |-> FirstCategoryOf(c, node)])])

KeysTable == Tabulate([c \in AllCategories |-> Keys(c)])

\* self._items[category] as a set
ItemSet(category) == ItemSetTable[items][category]

\* self._items[category] as the list it is
ItemList(category) == ItemListOf(items, category)

\* self._all_items
all_items == AllItemsTable[items]

\* self._items.keys()
keys == KeysTable[items]

Raise(s) == [s EXCEPT !.err = TRUE]

\* _category(node): the first category holding node, None when there is none
category_of(node) ==
    IF node \in all_items THEN CategoryTable[items][node] ELSE NoOrdinal

\* edge_count
edge_count(s) == Cardinality(s.G)

\* neighbors(node, category): the assert is neighbors_ok
neighbors_ok(node, category) == node \notin ItemSet(category)

neighbors(s, node, category) ==
    {n \in ItemSet(category) : {node, n} \in s.G}

\* neighbors(node) without a category
all_neighbors(s, node) == {n \in all_items : {node, n} \in s.G}

\* the categories neighbors_by_type(node) has a key for
other_categories(node) == keys \ {category_of(node)}

\* neighbors_by_type(node) raises when node is also listed in another category
neighbors_by_type_ok(node) ==
    \A category \in other_categories(node) : neighbors_ok(node, category)

neighbors_by_type(s, node) ==
    [category \in other_categories(node) |-> neighbors(s, node, category)]

count_edges_per_type(s, node) ==
    [category \in other_categories(node) |->
        Cardinality(neighbors_by_type(s, node)[category])]

-----------------------------------------------------------------------------
(* Sequencing.  "CHOOSE r \in {F(x) : x \in {e}} : TRUE" is F applied to the  *)
(* value of e: the statements "x = e; F(x)".  Every operator that takes a    *)
(* puzzle state binds it this way first, so that a sequence of statements    *)
(* is evaluated once, in order.                                             *)

\* set(x).symmetric_difference(y)
symmetric_difference(X, Y) == (X \ Y) \cup (Y \ X)

-----------------------------------------------------------------------------
(* Primitive mutators *)

\* mark_false with its "return True" after the try block
mark_false_returns_true(s, node1, node2) == TRUE

\* the value mark_false returns
mark_false_returns(s, node1, node2) == {node1, node2} \in s.G

mark_false(s, node1, node2) ==
    CHOOSE r \in {
        IF x.err THEN x
        ELSE IF node1 \notin all_items \/ node2 \notin all_items THEN Raise(x)
        ELSE [x EXCEPT !.G = @ \ {{node1, node2}}]
      : x \in {s}} : TRUE

\* a loop "for n in nodes: mark_false(n, node)" over a Python set: the calls
\* commute, so the iteration order is immaterial
RECURSIVE mark_false_all(_, _, _)
mark_false_all(s, nodes, node) ==
    CHOOSE r \in {
        IF ns = {} THEN x
        ELSE mark_false_all(mark_false(x, CHOOSE n \in ns : TRUE, node),
                            ns \ {CHOOSE n \in ns : TRUE}, node)
      : x \in {s}, ns \in {nodes}} : TRUE

\* self._answers[node][type] = value
SetAnswer(a, node, type, value) ==
    [a EXCEPT ![node] = (type :> value) @@ @]

\* mark_true that returns before its two assignments
fill_answers_skipped(s, node1, node2) == s

\* assignments that replace the items' entries instead of updating them
fill_answers_fresh_dict(s, node1, node2) ==
    CHOOSE r \in {
        IF x.err THEN x
        ELSE [x EXCEPT !.answers =
                 [@ EXCEPT ![node1] = [c \in DOMAIN @ |->
                                          IF c = category_of(node2) THEN node2 ELSE None],
                           ![node2] = [c \in DOMAIN @ |->
                                          IF c = category_of(node1) THEN node1 ELSE None]]]
      : x \in {s}} : TRUE

\* the two assignments that end mark_true
fill_answers(s, node1, node2) ==
    CHOOSE r \in {
        IF x.err THEN x
        ELSE [x EXCEPT !.answers =
                 SetAnswer(SetAnswer(@, node1, category_of(node2), node2),
                           node2, category_of(node1), node1)]
      : x \in {s}} : TRUE

\* mark_true that also calls add_edge(node1, node2)
mark_true_adds_edge(s, node1, node2) ==
    CHOOSE r \in {
        IF x.err THEN x
        ELSE IF node1 \notin all_items \/ node2 \notin all_items THEN Raise(x)
        ELSE [fill_answers(
                 mark_false_all(
                     mark_false_all(x, ItemSet(category_of(node1)) \ {node1}, node2),
                     ItemSet(category_of(node2)) \ {node2}, node1),
                 node1, node2) EXCEPT !.G = @ \cup {{node1, node2}}]
      : x \in {s}} : TRUE

\* mark_true without its second loop
mark_true_one_sided(s, node1, node2) ==
    CHOOSE r \in {
        IF x.err THEN x
        ELSE IF node1 \notin all_items \/ node2 \notin all_items THEN Raise(x)
        ELSE fill_answers(
                 mark_false_all(x, ItemSet(category_of(node1)) \ {node1}, node2),
                 node1, node2)
      : x \in {s}} : TRUE

\* mark_true whose loops break after the first edge they remove
mark_true_breaks(s, node1, node2) ==
    CHOOSE r \in {
        IF x.err THEN x
        ELSE IF node1 \notin all_items \/ node2 \notin all_items THEN Raise(x)
        ELSE fill_answers(
                 mark_false_all(
                     mark_false_all(x,
                         {n \in ItemSet(category_of(node1)) \ {node1} :
                             /\ {n, node2} \in x.G
                             /\ \A m \in ItemSet(category_of(node1)) \ {node1} :
                                    {m, node2} \in x.G => n <= m},
                         node2),
                     {n \in ItemSet(category_of(node2)) \ {node2} :
                         /\ {n, node1} \in x.G
                         /\ \A m \in ItemSet(category_of(node2)) \ {node2} :
                                {m, node1} \in x.G => n <= m},
                     node1),
                 node1, node2)
      : x \in {s}} : TRUE

\* mark_true that records the answer and eliminates nothing
mark_true_answers_only(s, node1, node2) ==
    CHOOSE r \in {
        IF x.err THEN x
        ELSE IF node1 \notin all_items \/ node2 \notin all_items THEN Raise(x)
        ELSE fill_answers(x, node1, node2)
      : x \in {s}} : TRUE

mark_true(s, node1, node2) ==
    CHOOSE r \in {
        IF x.err THEN x
        ELSE IF node1 \notin all_items \/ node2 \notin all_items THEN Raise(x)
        ELSE fill_answers(
                 mark_false_all(
                     mark_false_all(x, ItemSet(category_of(node1)) \ {node1}, node2),
                     ItemSet(category_of(node2)) \ {node2}, node1),
                 node1, node2)
      : x \in {s}} : TRUE

-----------------------------------------------------------------------------
(* The structural pass *)

\* the asserts of the neighbors(...) calls of one iteration of _share_info
share_info_ok(node1, node2, t) ==
    IF t = category_of(node1) THEN neighbors_ok(node2, t)
    ELSE IF t = category_of(node2) THEN neighbors_ok(node1, t)
    ELSE neighbors_ok(node1, t) /\ neighbors_ok(node2, t)

\* unique_v_of_t of _share_info
unique_v_of_t(x, node1, node2, t) ==
    IF t = category_of(node1)
    THEN symmetric_difference({node1}, neighbors(x, node2, t))
    ELSE IF t = category_of(node2)
    THEN symmetric_difference(neighbors(x, node1, t), {node2})
    ELSE symmetric_difference(neighbors(x, node1, t), neighbors(x, node2, t))

\* _share_info(node1, node2): one iteration of "for t in self._items.keys()"
share_info_step(s, node1, node2, t) ==
    CHOOSE r \in {
        IF x.err THEN x
        ELSE IF ~share_info_ok(node1, node2, t) THEN Raise(x)
        ELSE mark_false_all(
                 mark_false_all(x,
                     IF t # category_of(node1)
                     THEN unique_v_of_t(x, node1, node2, t) ELSE {},
                     node1),
                 IF t # category_of(node2)
                 THEN unique_v_of_t(x, node1, node2, t) ELSE {},
                 node2)
      : x \in {s}} : TRUE

RECURSIVE share_info_from(_, _, _, _)
share_info_from(s, node1, node2, ti) ==
    IF ti > Len(items) THEN s
    ELSE share_info_from(share_info_step(s, node1, node2, items[ti].name),
                         node1, node2, ti + 1)

\* _share_info that leaves out the categories that are neither node's
share_info_own_categories_only(s, node1, node2) ==
    share_info_step(share_info_step(s, node1, node2, category_of(node1)),
                    node1, node2, category_of(node2))

\* _share_info that removes nothing
share_info_skipped(s, node1, node2) == s

share_info(s, node1, node2) == share_info_from(s, node1, node2, 1)

\* the innermost loop body of _reduce_graph with _has_one_edge's assert left out
reduce_visit_no_assert(s, v, ot) ==
    CHOOSE r \in {
        IF x.err THEN x
        ELSE IF ~neighbors_by_type_ok(v) \/ ot \notin other_categories(v) THEN Raise(x)
        ELSE IF count_edges_per_type(x, v)[ot] = 1
        THEN CHOOSE q \in {share_info(mark_true(x, v, n2), v, n2)
                             : n2 \in neighbors(x, v, ot)} : TRUE
        ELSE x
      : x \in {s}} : TRUE

\* the body of the innermost loop of _reduce_graph for item v and category ot:
\* _has_one_edge(v, ot) (with its assert), then mark_true and _share_info
reduce_visit(s, v, ot) ==
    CHOOSE r \in {
        IF x.err THEN x
        ELSE IF ~neighbors_by_type_ok(v) \/ ot \notin other_categories(v) THEN Raise(x)
        ELSE IF count_edges_per_type(x, v)[ot] = 0 THEN Raise(x)
        ELSE IF count_edges_per_type(x, v)[ot] = 1
        THEN CHOOSE q \in {share_info(mark_true(x, v, n2), v, n2)
                             : n2 \in neighbors(x, v, ot)} : TRUE
        ELSE x
      : x \in {s}} : TRUE

\* _reduce_graph from category number ti, item number vi, category number oi on
RECURSIVE reduce_from(_, _, _, _)
reduce_from(s, ti, vi, oi) ==
    CHOOSE r \in {
        IF x.err \/ t > Len(items) THEN x
        ELSE IF v > Len(items[t].items) THEN reduce_from(x, t + 1, 1, 1)
        ELSE IF o > Len(items) THEN reduce_from(x, t, v + 1, 1)
        ELSE IF items[o].name = items[t].name THEN reduce_from(x, t, v, o + 1)
        ELSE reduce_from(reduce_visit(x, items[t].items[v], items[o].name),
                         t, v, o + 1)
      : x \in {s}, t \in {ti}, v \in {vi}, o \in {oi}} : TRUE

reduce_graph(s) == reduce_from(s, 1, 1, 1)

-----------------------------------------------------------------------------
(* The clue rules *)

neither_nor(s, obj, p1, p2) ==
    mark_false(mark_false(mark_false(s, obj, p1), obj, p2), p1, p2)

\* items_to_eliminate that forgets to spare the other item of the pair
items_to_eliminate_other_too(other_category, other_item, first) ==
    symmetric_difference(ItemSet(other_category), {first})

\* items_to_eliminate of transitive_true_propagation, for the single neighbor
\* first of pair_item in other_category
items_to_eliminate(other_category, other_item, first) ==
    symmetric_difference(ItemSet(other_category), {other_item, first})

\* either_or with its true propagation commented out, like its false one
transitive_true_propagation_off(s, obj, pair_item, other_category, other_item) == s

\* transitive_true_propagation of either_or(obj, ...)
transitive_true_propagation(s, obj, pair_item, other_category, other_item) ==
    CHOOSE r \in {
        IF x.err THEN x
        ELSE IF ~neighbors_by_type_ok(pair_item)
                \/ other_category \notin other_categories(pair_item) THEN Raise(x)
        ELSE IF Cardinality(neighbors_by_type(x, pair_item)[other_category]) = 1
        THEN CHOOSE q \in {mark_false_all(x,
                               items_to_eliminate(other_category, other_item, first),
                               obj)
                             : first \in neighbors_by_type(x, pair_item)[other_category]}
                  : TRUE
        ELSE x
      : x \in {s}} : TRUE

\* "if member not in adj[key]: mark_true(obj, p)" of either_or, where adj is
\* the snapshot obj_adj taken at the start of the call; a missing key is a
\* KeyError
either_or_absent(s, adj, key, member, obj, p) ==
    CHOOSE r \in {
        IF x.err THEN x
        ELSE IF key \notin DOMAIN adj THEN Raise(x)
        ELSE IF member \notin adj[key] THEN mark_true(x, obj, p)
        ELSE x
      : x \in {s}} : TRUE

\* "if len(adj[key]) == 1 and obj not in adj[key]: mark_true(obj, p)", where
\* adj is the snapshot p1_adj or p2_adj
either_or_taken(s, adj, key, obj, p) ==
    CHOOSE r \in {
        IF x.err THEN x
        ELSE IF key \notin DOMAIN adj THEN Raise(x)
        ELSE IF Cardinality(adj[key]) = 1 /\ obj \notin adj[key]
        THEN mark_true(x, obj, p)
        ELSE x
      : x \in {s}} : TRUE

\* "if len(adj[key]) == 1 and member in adj[key]: mark_false(obj, p)"
either_or_false(s, adj, key, member, obj, p) ==
    CHOOSE r \in {
        IF x.err THEN x
        ELSE IF key \notin DOMAIN adj THEN Raise(x)
        ELSE IF Cardinality(adj[key]) = 1 /\ member \in adj[key]
        THEN mark_false(x, obj, p)
        ELSE x
      : x \in {s}} : TRUE

\* either_or lines 325-335: the two singleton tests on obj's snapshot
either_or_single(s, obj, p1, p2, obj_adj) ==
    IF category_of(p1) # category_of(p2)
    THEN either_or_false(
             either_or_false(s, obj_adj, category_of(p1), p1, obj, p2),
             obj_adj, category_of(p2), p1, obj, p1)
    ELSE s

\* either_or lines 383-386
either_or_transitive(s, obj, p1, p2) ==
    IF category_of(p1) # category_of(p2)
    THEN transitive_true_propagation(
             transitive_true_propagation(s, obj, p1, category_of(p2), p2),
             obj, p2, category_of(p1), p1)
    ELSE s

\* either_or after the snapshots obj_adj, p1_adj, p2_adj have been taken
either_or_body(s, obj, p1, p2, obj_adj, p1_adj, p2_adj) ==
    either_or_transitive(
        either_or_taken(
            either_or_taken(
                either_or_single(
                    either_or_absent(
                        either_or_absent(mark_false(s, p1, p2),
                                         obj_adj, category_of(p1), p1, obj, p2),
                        obj_adj, category_of(p2), p2, obj, p1),
                    obj, p1, p2, obj_adj),
                p1_adj, category_of(obj), obj, p2),
            p2_adj, category_of(obj), obj, p1),
        obj, p1, p2)

either_or(s, obj, p1, p2) ==
    CHOOSE r \in {
        IF x.err THEN x
        ELSE IF ~(neighbors_by_type_ok(obj) /\ neighbors_by_type_ok(p1)
                  /\ neighbors_by_type_ok(p2)) THEN Raise(x)
        ELSE either_or_body(x, obj, p1, p2, neighbors_by_type(x, obj),
                            neighbors_by_type(x, p1), neighbors_by_type(x, p2))
      : x \in {s}} : TRUE

\* pair_same_type_logic that forgets the second item of the other pair
pair_same_type_logic_first_only(s, pair, p_type, other_pair) ==
    CHOOSE r \in {
        IF x.err THEN x
        ELSE mark_false_all(x,
                 {o \in symmetric_difference(SeqToSet(pair), ItemSet(p_type)) :
                     o \in all_neighbors(x, other_pair[1])},
                 other_pair[1])
      : x \in {s}} : TRUE

\* pair_same_type_logic of pairs
pair_same_type_logic(s, pair, p_type, other_pair) ==
    CHOOSE r \in {
        IF x.err THEN x
        ELSE mark_false_all(
                 mark_false_all(x,
                     {o \in symmetric_difference(SeqToSet(pair), ItemSet(p_type)) :
                         o \in all_neighbors(x, other_pair[1])},
                     other_pair[1]),
                 {o \in symmetric_difference(SeqToSet(pair), ItemSet(p_type)) :
                     o \in all_neighbors(x, other_pair[2])},
                 other_pair[2])
      : x \in {s}} : TRUE

\* "if type(pair[0]) == type(pair[1]): pair_same_type_logic(pair, type, other_pair)"
pairs_same_type(s, pair, other_pair) ==
    IF category_of(pair[1]) = category_of(pair[2])
    THEN pair_same_type_logic(s, pair, category_of(pair[1]), other_pair)
    ELSE s

pairs(s, pair1, pair2) ==
    pairs_same_type(
        pairs_same_type(
            either_or(
                either_or(
                    either_or(
                        either_or(
                            mark_false(mark_false(s, pair1[1], pair1[2]),
                                       pair2[1], pair2[2]),
                            pair1[1], pair2[1], pair2[2]),
                        pair1[2], pair2[1], pair2[2]),
                    pair2[1], pair1[1], pair1[2]),
                pair2[2], pair1[1], pair1[2]),
            pair1, pair2),
        pair2, pair1)

\* mutually_exclusive: mark_false on every 2-combination of the list
RECURSIVE mutually_exclusive_from(_, _, _, _)
mutually_exclusive_from(s, list_of_things, i, j) ==
    CHOOSE r \in {
        IF a >= Len(list_of_things) THEN s
        ELSE IF b > Len(list_of_things)
             THEN mutually_exclusive_from(s, list_of_things, a + 1, a + 2)
        ELSE mutually_exclusive_from(
                 mark_false(s, list_of_things[a], list_of_things[b]),
                 list_of_things, a, b + 1)
      : a \in {i}, b \in {j}} : TRUE

mutually_exclusive(s, list_of_things) ==
    mutually_exclusive_from(s, list_of_things, 1, 2)

\* cat_neighbors of delta_comparison
cat_neighbors(s, x, category) == neighbors(s, x, category)

\* delta_comparison lines 453-454: the f-strings handed to logger.debug are
\* evaluated on every iteration, so the assert of neighbors and min(...) /
\* max(...) of an empty neighbor list raise there
delta_debug(s, lesser, greater, category) ==
    CHOOSE r \in {
        IF x.err THEN x
        ELSE IF ~(neighbors_ok(lesser, category) /\ neighbors_ok(greater, category))
        THEN Raise(x)
        ELSE IF cat_neighbors(x, lesser, category) = {}
                \/ cat_neighbors(x, greater, category) = {} THEN Raise(x)
        ELSE x
      : x \in {s}} : TRUE

\* lines 456-458
delta_not_lesser(s, lesser, greater, delta, category, p) ==
    CHOOSE r \in {
        IF x.err THEN x
        ELSE IF p \notin cat_neighbors(x, lesser, category)
                /\ p + delta \in ItemSet(category)
        THEN mark_false(x, greater, p + delta)
        ELSE x
      : x \in {s}} : TRUE

\* lines 459-461
delta_not_greater(s, lesser, greater, delta, category, p) ==
    CHOOSE r \in {
        IF x.err THEN x
        ELSE IF p \notin cat_neighbors(x, greater, category)
                /\ p - delta \in ItemSet(category)
        THEN mark_false(x, lesser, p - delta)
        ELSE x
      : x \in {s}} : TRUE

\* lines 464-466
delta_min_lesser(s, lesser, greater, delta, category, p) ==
    CHOOSE r \in {
        IF x.err THEN x
        ELSE IF cat_neighbors(x, lesser, category) = {} THEN Raise(x)
        ELSE IF p < Min(cat_neighbors(x, lesser, category)) + delta
        THEN mark_false(x, greater, p)
        ELSE x
      : x \in {s}} : TRUE

\* lines 467-469
delta_max_greater(s, lesser, greater, delta, category, p) ==
    CHOOSE r \in {
        IF x.err THEN x
        ELSE IF cat_neighbors(x, greater, category) = {} THEN Raise(x)
        ELSE IF p > Max(cat_neighbors(x, greater, category)) - delta
        THEN mark_false(x, lesser, p)
        ELSE x
      : x \in {s}} : TRUE

\* lines 470-474
delta_minus(s, lesser, greater, delta, category, p) ==
    CHOOSE r \in {
        IF x.err THEN x
        ELSE IF delta > 0 /\ p - delta \in ItemSet(category)
                /\ p - delta \notin cat_neighbors(x, lesser, category)
        THEN mark_false(x, greater, p)
        ELSE x
      : x \in {s}} : TRUE

\* lines 475-478
delta_plus(s, lesser, greater, delta, category, p) ==
    CHOOSE r \in {
        IF x.err THEN x
        ELSE IF delta > 0 /\ p + delta \in ItemSet(category)
                /\ p + delta \notin cat_neighbors(x, greater, category)
        THEN mark_false(x, lesser, p)
        ELSE x
      : x \in {s}} : TRUE

\* delta_comparison: the body of "for p in numeric" for one p
delta_step(s, lesser, greater, delta, category, p) ==
    delta_plus(
        delta_minus(
            delta_max_greater(
                delta_min_lesser(
                    delta_not_greater(
                        delta_not_lesser(
                            delta_debug(s, lesser, greater, category),
                            lesser, greater, delta, category, p),
                        lesser, greater, delta, category, p),
                    lesser, greater, delta, category, p),
                lesser, greater, delta, category, p),
            lesser, greater, delta, category, p),
        lesser, greater, delta, category, p)

RECURSIVE delta_from(_, _, _, _, _, _)
delta_from(s, lesser, greater, delta, category, i) ==
    IF i > Len(ItemList(category)) THEN s
    ELSE delta_from(delta_step(s, lesser, greater, delta, category,
                               ItemList(category)[i]),
                    lesser, greater, delta, category, i + 1)

\* delta_comparison up to the loop: the three mark_false calls
delta_prologue(s, lesser, greater, category) ==
    CHOOSE r \in {
        IF x.err THEN x
        ELSE IF category \notin keys THEN Raise(x)
        ELSE IF ItemSet(category) = {} THEN Raise(x)
        ELSE mark_false(mark_false(x, greater, Min(ItemSet(category))),
                        lesser, Max(ItemSet(category)))
      : x \in {mark_false(s, lesser, greater)}} : TRUE

delta_comparison(s, lesser, greater, delta, category) ==
    IF delta < 0 THEN Raise(s)
    ELSE delta_from(delta_prologue(s, lesser, greater, category),
                    lesser, greater, delta, category, 1)

-----------------------------------------------------------------------------
(* Rules as data: what add_rule is handed.  kind names the function, args    *)
(* its item arguments (and delta), cat the category of delta_comparison.     *)

Rule(kind, args, cat) == [kind |-> kind, args |-> args, cat |-> cat]

\* f(self) in execute_rules
apply_rule(s, r) ==
    CASE r.kind = "neither_nor" -> neither_nor(s, r.args[1], r.args[2], r.args[3])
      [] r.kind = "either_or" -> either_or(s, r.args[1], r.args[2], r.args[3])
      [] r.kind = "pairs" ->
            pairs(s, <<r.args[1], r.args[2]>>, <<r.args[3], r.args[4]>>)
      [] r.kind = "mutually_exclusive" -> mutually_exclusive(s, r.args)
      [] r.kind = "delta_comparison" ->
            delta_comparison(s, r.args[1], r.args[2], r.args[3], r.cat)

\* "for i, f in enumerate(self._rules): f(self)" from rule number i on
RECURSIVE apply_rules_from(_, _, _)
apply_rules_from(s, rs, i) ==
    CHOOSE r \in {
        IF x.err \/ k > Len(rs) THEN x
        ELSE apply_rules_from(apply_rule(x, rs[k]), rs, k + 1)
      : x \in {s}, k \in {i}} : TRUE

\* a loop that gives up after its first round
one_round_only(current, s) == current = Infinity /\ current > edge_count(s)

\* a loop that also goes on when a round removed nothing
while_not_grown(current, s) == current >= edge_count(s)

\* "while current_edge_count > self.edge_count"
loop_condition(current, s) == current > edge_count(s)

\* the while loop of execute_rules, entered with the local current_edge_count = current
RECURSIVE execute_rules_loop(_, _, _)
execute_rules_loop(s, rs, current) ==
    CHOOSE r \in {
        IF x.err \/ ~loop_condition(c, x) THEN x
        ELSE execute_rules_loop(reduce_graph(apply_rules_from(x, rs, 1)), rs,
                                edge_count(x))
      : x \in {s}, c \in {current}} : TRUE

\* execute_rules as a whole
execute_rules(s, rs) == execute_rules_loop(s, rs, Infinity)

-----------------------------------------------------------------------------
(* The rules a caller registers: a fixed family of clue shapes, resolved     *)
(* against the constructed categories.  It(c, i) is item i of category c.    *)

It(c, i) == items[c].items[i]

NumCategories == Len(items)

\* the last category is the numeric one in every input with two or more
NumericCategory == items[Len(items)].name

RuleUniverse ==
    (IF NumCategories >= 3
     THEN {Rule("either_or", <<It(1, 1), It(2, 1), It(2, 2)>>, ""),
           Rule("either_or", <<It(1, 1), It(2, 1), It(3, 1)>>, ""),
           Rule("either_or", <<It(2, 2), It(3, 1), It(1, 1)>>, ""),
           Rule("neither_nor", <<It(1, 1), It(2, 1), It(3, 1)>>, ""),
           Rule("neither_nor", <<It(1, 2), It(2, 1), It(2, 2)>>, ""),
           Rule("pairs", <<It(1, 1), It(1, 2), It(2, 1), It(2, 2)>>, ""),
           Rule("pairs", <<It(1, 1), It(2, 1), It(3, 1), It(3, 2)>>, ""),
           Rule("mutually_exclusive", <<It(1, 2), It(2, 1), It(3, 2)>>, ""),
           Rule("delta_comparison", <<It(1, 1), It(1, 2), 1>>, NumericCategory),
           Rule("delta_comparison", <<It(2, 1), It(1, 1), 2>>, NumericCategory),
           Rule("delta_comparison", <<It(1, 2), It(2, 2), 0>>, NumericCategory)}
     ELSE {})
    \cup
    (IF NumCategories = 2 /\ Len(items[1].items) >= 3
     THEN {Rule("either_or", <<It(1, 1), It(2, 1), It(2, 2)>>, ""),
           Rule("neither_nor", <<It(1, 2), It(2, 1), It(2, 2)>>, ""),
           Rule("pairs", <<It(1, 1), It(1, 2), It(2, 1), It(2, 2)>>, ""),
           Rule("mutually_exclusive", <<It(1, 3), It(2, 3)>>, ""),
           Rule("delta_comparison", <<It(1, 1), It(1, 2), 1>>, NumericCategory),
           Rule("delta_comparison", <<It(1, 2), It(1, 3), 2>>, NumericCategory),
           Rule("delta_comparison", <<It(1, 3), It(1, 1), 0>>, NumericCategory)}
     ELSE {})
    \cup
    (IF NumCategories = 1
     THEN {Rule("mutually_exclusive", <<It(1, 1), It(1, 2)>>, "")}
     ELSE {})

-----------------------------------------------------------------------------
(* The state machine *)

\* the puzzle state the variables hold
Cur == [G |-> G, answers |-> answers, err |-> FALSE]

Call(op, a, b) == [op |-> op, a |-> a, b |-> b]

NoStart == [G |-> {}, answers |-> <<>>]

InitFrom(inputs) ==
    /\ input \in inputs
    /\ pc = "new"
    /\ items = <<>>
    /\ G = {}
    /\ answers = <<>>
    /\ rules = <<>>
    /\ idx = 0
    /\ current_edge_count = 0
    /\ history = <<>>
    /\ start = NoStart
    /\ last = Call("none", None, None)
    /\ pre = NoStart
    /\ ret = <<>>
    /\ nOps = 0

Init == InitFrom(Inputs)

\* the same, with the inputs without items among the inputs
InitAnyInput == InitFrom(Inputs \cup EmptyInputs)

\* LogicPuzzle(categories, ordinal_category)
Construct ==
    /\ pc = "new"
    /\ IF ConfigOk(input.categories, input.ordinal_category)
       THEN /\ items' = input.categories
            /\ G' = InitEdges(input.categories)
            /\ answers' = InitAnswers(input.categories)
            /\ pc' = "setup"
       ELSE /\ pc' = "rejected"
            /\ UNCHANGED <<items, G, answers>>
    /\ last' = Call("construct", None, None)
    /\ pre' = NoStart
    /\ ret' = <<>>
    /\ UNCHANGED <<input, rules, idx, current_edge_count, history, start, nOps>>

SetupBudget == nOps + Len(rules) < MaxSetup

\* a direct call puzzle.mark_false(a, b); the graph is undirected, so the
\* calls are taken with a not after b
MarkFalse ==
    /\ pc = "setup"
    /\ SetupBudget
    /\ \E a \in all_items, b \in all_items :
          /\ a <= b
          /\ \E s \in {mark_false(Cur, a, b)} :
              /\ G' = s.G
              /\ answers' = s.answers
              /\ last' = Call("mark_false", a, b)
              /\ ret' = <<mark_false_returns(Cur, a, b)>>
    /\ pre' = [G |-> G, answers |-> answers]
    /\ nOps' = nOps + 1
    /\ UNCHANGED <<input, pc, items, rules, idx, current_edge_count, history, start>>

\* a direct call puzzle.mark_true(a, b), a and b of different categories
MarkTrue ==
    /\ pc = "setup"
    /\ SetupBudget
    /\ \E a \in all_items, b \in all_items :
          /\ category_of(a) # category_of(b)
          /\ \E s \in {mark_true(Cur, a, b)} :
                 /\ G' = s.G
                 /\ answers' = s.answers
                 /\ last' = Call("mark_true", a, b)
    /\ pre' = [G |-> G, answers |-> answers]
    /\ ret' = <<>>
    /\ nOps' = nOps + 1
    /\ UNCHANGED <<input, pc, items, rules, idx, current_edge_count, history, start>>

\* puzzle.add_rule(fxn): the rules are plain functions, never Comparison objects
AddRule ==
    /\ pc = "setup"
    /\ SetupBudget
    /\ \E r \in RuleUniverse : rules' = Append(rules, r)
    /\ last' = Call("add_rule", None, None)
    /\ pre' = [G |-> G, answers |-> answers]
    /\ ret' = <<>>
    /\ UNCHANGED <<input, pc, items, G, answers, idx, current_edge_count, history,
                   start, nOps>>

\* the test of "while current_edge_count > self.edge_count" on puzzle state s,
\* with the local at value current, and what follows it
LoopTest(s, current) ==
    IF loop_condition(current, s)
    THEN /\ current_edge_count' = edge_count(s)
         /\ history' = Append(history, edge_count(s))
         /\ idx' = 1
         /\ pc' = "rules"
    ELSE /\ pc' = "done"
         /\ UNCHANGED <<current_edge_count, history, idx>>

\* puzzle.execute_rules() up to the first rule of the first round
ExecuteRules ==
    /\ pc = "setup"
    /\ start' = [G |-> G, answers |-> answers]
    /\ LoopTest(Cur, Infinity)
    /\ last' = Call("execute_rules", None, None)
    /\ pre' = [G |-> G, answers |-> answers]
    /\ ret' = <<>>
    /\ UNCHANGED <<input, items, G, answers, rules, nOps>>

\* f(self) for the next rule of the round
InvokeRule ==
    /\ pc = "rules"
    /\ idx <= Len(rules)
    /\ \E s \in {apply_rule(Cur, rules[idx])} :
           /\ G' = s.G
           /\ answers' = s.answers
           /\ pc' = IF s.err THEN "error" ELSE "rules"
    /\ idx' = idx + 1
    /\ last' = Call("rule", idx, None)
    /\ pre' = [G |-> G, answers |-> answers]
    /\ ret' = <<>>
    /\ UNCHANGED <<input, items, rules, current_edge_count, history, start, nOps>>

\* self._reduce_graph() at the end of the round, then the loop test
ReduceGraph ==
    /\ pc = "rules"
    /\ idx > Len(rules)
    /\ \E s \in {reduce_graph(Cur)} :
           /\ G' = s.G
           /\ answers' = s.answers
           /\ IF s.err
              THEN /\ pc' = "error"
                   /\ UNCHANGED <<current_edge_count, history, idx>>
              ELSE LoopTest(s, current_edge_count)
    /\ last' = Call("reduce", None, None)
    /\ pre' = [G |-> G, answers |-> answers]
    /\ ret' = <<>>
    /\ UNCHANGED <<input, items, rules, start, nOps>>

Next ==
    \/ Construct
    \/ MarkFalse
    \/ MarkTrue
    \/ AddRule
    \/ ExecuteRules
    \/ InvokeRule
    \/ ReduceGraph

Spec == Init /\ [][Next]_vars

SpecAnyInput == InitAnyInput /\ [][Next]_vars

\* the solve under weak fairness of its own steps: once execute_rules is
\* called, the interpreter keeps running it
FairSpec == Spec /\ WF_vars(InvokeRule \/ ReduceGraph)

-----------------------------------------------------------------------------
(* Properties *)

Constructed == pc \in {"setup", "rules", "done", "error"}

Returned == pc \in {"done", "error"}

\* C1: after construction no step adds an edge to the graph (mark_true(a, b)
\* on an absent edge {a, b} included), and the edge counts at the starts of
\* the rounds of execute_rules never increase from one round to the next
C1_EdgesOnlyRemoved ==
    /\ [](\A i \in 1..Len(history), j \in 1..Len(history) :
              i < j => history[j] <= history[i])
    /\ [][Constructed => G' \subseteq G]_vars

\* a solve went through three rounds that each started with fewer edges than
\* the one before
C1_Witness ==
    /\ Len(history) >= 3
    /\ history[3] < history[2]
    /\ history[2] < history[1]

\* C2 as the specification states it: execute_rules runs at most as many
\* rounds as the graph had edges when it was called
C2_RoundsAtMostInitialEdges ==
    history # <<>> => Len(history) <= history[1]

\* C2: execute_rules terminates, converged or aborted, and it runs at most as
\* many rounds as the graph had edges when it was called, or one round when
\* the graph had no edge
C2_TerminatesWithinBound ==
    /\ [](history # <<>> =>
              Len(history) <= IF history[1] = 0 THEN 1 ELSE history[1])
    /\ (pc = "rules") ~> Returned

\* execute_rules returned normally after rounds that removed edges
C2_Witness ==
    /\ pc = "done"
    /\ Len(history) >= 2
    /\ history[Len(history)] < history[1]

\* what a caller sees of a solve: whether it aborted and, if it did not, the
\* graph and the answers it converged to
Outcome(s) == IF s.err THEN [err |-> TRUE]
              ELSE [err |-> FALSE, G |-> s.G, answers |-> s.answers]

\* the registered rules in every order
Reorderings ==
    {[i \in 1..Len(rules) |-> rules[p[i]]] : p \in Permutations(1..Len(rules))}

\* C3: when execute_rules has returned, solving the same starting state with
\* the same rules registered in any other order ends the same way: aborted, or
\* converged to the same graph and answers
C3_OrderIndependent ==
    Returned =>
        \A rs \in Reorderings :
            Outcome(execute_rules([G |-> start.G, answers |-> start.answers,
                                   err |-> FALSE], rs))
            = Outcome([G |-> G, answers |-> answers, err |-> pc = "error"])

\* a solve with two different rules converged after removing edges
C3_Witness ==
    /\ pc = "done"
    /\ Len(rules) = 2
    /\ rules[1] # rules[2]
    /\ G # start.G

\* C4: execute_rules never returns normally with an item that has no
\* neighbor left in some other category
C4_NoZeroDegreeAtReturn ==
    pc = "done" =>
        \A v \in all_items : \A c \in other_categories(v) :
            neighbors(Cur, v, c) # {}

\* the rules drove an item's degree in some category to zero and the solve
\* aborted
C4_Witness ==
    /\ pc = "error"
    /\ Len(rules) > 0
    /\ \E v \in all_items : \E c \in other_categories(v) :
           /\ neighbors(Cur, v, c) = {}
           /\ neighbors([G |-> start.G], v, c) # {}

\* C5: when execute_rules returns normally, every item with exactly one
\* neighbor in another category has that neighbor as its answer for the
\* category, and is the neighbor's answer for its own category
C5_AnswersAgreeAtReturn ==
    pc = "done" =>
        \A v \in all_items : \A c \in other_categories(v) :
            \A w \in neighbors(Cur, v, c) :
                neighbors(Cur, v, c) = {w} =>
                    /\ answers[v][c] = w
                    /\ answers[w][category_of(v)] = v

\* a solve returned normally with an item that the rounds, not the caller,
\* brought down to one neighbor
C5_Witness ==
    /\ pc = "done"
    /\ \E v \in all_items : \E c \in other_categories(v) :
           /\ Cardinality(neighbors(Cur, v, c)) = 1
           /\ Cardinality(neighbors([G |-> start.G], v, c)) > 1

\* C6: right after mark_true(a, b), no other item of a's category has an
\* edge to b and no other item of b's category has an edge to a
C6_MarkTrueSound ==
    last.op = "mark_true" =>
        /\ \A n \in ItemSet(category_of(last.a)) \ {last.a} : {n, last.b} \notin G
        /\ \A n \in ItemSet(category_of(last.b)) \ {last.b} : {n, last.a} \notin G

\* mark_true(a, b) has just removed competing edges
C6_Witness ==
    /\ last.op = "mark_true"
    /\ nOps = 1
    /\ G # InitEdges(items)
    /\ {last.a, last.b} \in G

\* C7: mark_true(a, b) again, right after mark_true(a, b), changes neither
\* the graph nor the answers
C7_MarkTrueIdempotent ==
    last.op = "mark_true" => mark_true(Cur, last.a, last.b) = Cur

\* mark_true(a, b) has just been called twice in a row
C7_Witness ==
    /\ last.op = "mark_true"
    /\ nOps = 2
    /\ G # InitEdges(items)
    /\ mark_true([G |-> InitEdges(items), answers |-> InitAnswers(items),
                  err |-> FALSE], last.a, last.b) = Cur

\* C8: an answers entry that is set is never unset
C8_AnswersNeverUnset ==
    [][\A v \in DOMAIN answers : \A c \in DOMAIN answers[v] :
           answers[v][c] # None => answers'[v][c] # None]_vars

\* a solve has returned with an answer set for a category other than the
\* item's own
C8_Witness ==
    /\ Returned
    /\ \E v \in DOMAIN answers : \E c \in DOMAIN answers[v] : answers[v][c] # None

\* C9: once the puzzle is constructed, no edge has both its ends in one
\* category
C9_NoSameCategoryEdge ==
    Constructed => \A e \in G : \A c \in keys : ~(e \subseteq ItemSet(c))

SizesEqual(categories) ==
    \A i \in 1..Len(categories), j \in 1..Len(categories) :
        Len(categories[i].items) = Len(categories[j].items)

\* C10: construction fails exactly when the categories differ in size or an
\* ordinal category is named that is no category; with equal sizes and a
\* known ordinal category, or none named, it yields the complete
\* inter-category graph
C10_ConstructionAccepts ==
    last.op = "construct" =>
        /\ pc = "rejected" <=>
              \/ ~SizesEqual(input.categories)
              \/ /\ input.ordinal_category # NoOrdinal
                 /\ input.ordinal_category \notin Keys(input.categories)
        /\ pc = "setup" =>
              G = UNION {{{a, b} : a \in SeqToSet(input.categories[p[1]].items),
                                   b \in SeqToSet(input.categories[p[2]].items)} :
                         p \in {q \in (1..Len(input.categories))
                                        \X (1..Len(input.categories)) :
                                    q[1] # q[2]}}

\* an identifier occurs at two places of the categories
HasDuplicate(categories) ==
    \E i \in 1..Len(categories), j \in 1..Len(categories) :
        \E m \in 1..Len(categories[i].items), n \in 1..Len(categories[j].items) :
            /\ <<i, m>> # <<j, n>>
            /\ categories[i].items[m] = categories[j].items[n]

\* there is no category, or a category without items
HasEmpty(categories) ==
    \/ Len(categories) = 0
    \/ \E i \in 1..Len(categories) : Len(categories[i].items) = 0

\* C11: construction rejects an input with a duplicated item identifier
\* (inside one category or across two) and an input with empty categories,
\* and produces no puzzle state for it
C11_RejectsMalformed ==
    (last.op = "construct"
     /\ (HasDuplicate(input.categories) \/ HasEmpty(input.categories)))
        => pc = "rejected" /\ items = <<>> /\ G = {} /\ answers = <<>>

\* C12: a direct mark_false(a, b) on known items returns true exactly when
\* the edge {a, b} was there before the call; afterwards the edge is absent,
\* every other edge and all the answers are as before, and when it returned
\* false nothing has changed
C12_MarkFalseFrame ==
    last.op = "mark_false" =>
        /\ ret = <<{last.a, last.b} \in pre.G>>
        /\ {last.a, last.b} \notin G
        /\ \A e \in pre.G \cup G : e # {last.a, last.b} => (e \in G <=> e \in pre.G)
        /\ answers = pre.answers
        /\ ret = <<FALSE>> => G = pre.G

\* mark_false(a, b) has just removed an edge, with an answer already set
C12_Witness ==
    /\ last.op = "mark_false"
    /\ ret = <<TRUE>>
    /\ Cardinality(G) + 1 = Cardinality(pre.G)
    /\ \E v \in DOMAIN answers : \E c \in DOMAIN answers[v] : answers[v][c] # None

\* the identifiers of the constructed puzzle are all distinct, as the
\* construction input is specified
Distinct == ~HasDuplicate(input.categories)

\* a rule of the given kind has just been invoked by execute_rules and
\* has returned
Invoked(kind) ==
    /\ last.op = "rule"
    /\ pc = "rules"
    /\ rules[last.a].kind = kind

\* the arguments of that rule
Arg(i) == rules[last.a].args[i]

\* the puzzle state that rule was invoked in
Pre == [G |-> pre.G, answers |-> pre.answers, err |-> FALSE]

\* C13: in a puzzle of distinct identifiers, after either_or(obj, (p1, p2))
\* with p1 and p2 of different categories, if obj's neighbors in p1's category were exactly {p1} at the
\* call then the edge {obj, p2} is absent, and if obj's neighbors in p2's
\* category were exactly {p2} at the call then the edge {obj, p1} is absent
C13_EitherOrSingleton ==
    (Invoked("either_or") /\ Distinct /\ category_of(Arg(2)) # category_of(Arg(3))) =>
        /\ neighbors(Pre, Arg(1), category_of(Arg(2))) = {Arg(2)}
               => {Arg(1), Arg(3)} \notin G
        /\ neighbors(Pre, Arg(1), category_of(Arg(3))) = {Arg(3)}
               => {Arg(1), Arg(2)} \notin G

\* the edges either_or(obj, (p1, p2)) must have removed when, p1 and p2
\* marked mutually false, p1's neighbors in p2's category are exactly {x}
Propagated(obj, p1, p2) ==
    \A x \in ItemSet(category_of(p2)) :
        neighbors(mark_false(Pre, p1, p2), p1, category_of(p2)) = {x} =>
            \A y \in ItemSet(category_of(p2)) \ {x, p2} : {obj, y} \notin G

\* C14: after either_or(obj, (p1, p2)) with p1 and p2 of different
\* categories, if p1 (once p1 and p2 are marked mutually false) has exactly
\* one neighbor x in p2's category, obj has no edge to an item of p2's
\* category other than x and p2, and the same with p1 and p2 exchanged; with
\* p1 and p2 of one category, obj loses an edge to another item of that
\* category only when the call commits obj to p1 or to p2
C14_EitherOrTransitive ==
    Invoked("either_or") =>
        IF category_of(Arg(2)) # category_of(Arg(3))
        THEN /\ Propagated(Arg(1), Arg(2), Arg(3))
             /\ Propagated(Arg(1), Arg(3), Arg(2))
        ELSE (\E y \in ItemSet(category_of(Arg(2))) \ {Arg(2), Arg(3)} :
                  {Arg(1), y} \in pre.G /\ {Arg(1), y} \notin G)
             => \E p \in {Arg(2), Arg(3)} :
                    neighbors(Cur, Arg(1), category_of(Arg(2))) \subseteq {p}

\* either_or(obj, (p1, p2)) has just removed an edge of obj to an item of
\* p2's category that is neither p2 nor the one neighbor p1 had there
C14_Witness ==
    /\ Invoked("either_or")
    /\ category_of(Arg(2)) # category_of(Arg(3))
    /\ \E x \in ItemSet(category_of(Arg(3))) :
           /\ neighbors(mark_false(Pre, Arg(2), Arg(3)), Arg(2), category_of(Arg(3))) = {x}
           /\ \E y \in ItemSet(category_of(Arg(3))) \ {x, Arg(3)} :
                  {Arg(1), y} \in pre.G /\ {Arg(1), y} \notin G

\* the registered delta_comparison rules with delta > 0
DeltaRules ==
    {rules[i] : i \in {j \in 1..Len(rules) :
                          rules[j].kind = "delta_comparison" /\ rules[j].args[3] > 0}}

\* C15: when execute_rules converges on a puzzle of distinct identifiers
\* with a delta_comparison(lesser, greater, delta, category), delta > 0,
\* registered, every value p still
\* possible for greater has p - delta still possible for lesser, and every
\* value q still possible for lesser has q + delta still possible for greater
C15_DeltaConsistent ==
    (pc = "done" /\ Distinct) =>
        \A r \in DeltaRules :
            /\ \A p \in cat_neighbors(Cur, r.args[2], r.cat) :
                   p - r.args[3] \in cat_neighbors(Cur, r.args[1], r.cat)
            /\ \A q \in cat_neighbors(Cur, r.args[1], r.cat) :
                   q + r.args[3] \in cat_neighbors(Cur, r.args[2], r.cat)

\* C16: in a puzzle of distinct identifiers,
\* delta_comparison(lesser, greater, 0, category) removes no edge but
\* {lesser, greater}: in particular no edge between lesser or greater and an
\* ordinal value
C16_DeltaZeroOnlyDistinct ==
    (Invoked("delta_comparison") /\ Distinct /\ Arg(3) = 0) =>
        G = pre.G \ {{Arg(1), Arg(2)}}

\* no item of a's and b's category other than a and b has an edge to c or d
OthersExcluded(a, b, c, d) ==
    category_of(a) = category_of(b) =>
        \A o \in ItemSet(category_of(a)) \ {a, b} :
            {o, c} \notin G /\ {o, d} \notin G

\* C17: after pairs((a, b), (c, d)) with a and b of one category, no other
\* item of that category has an edge to c or to d; and with c and d of one
\* category, no other item of that category has an edge to a or to b
C17_PairsSameType ==
    Invoked("pairs") =>
        /\ OthersExcluded(Arg(1), Arg(2), Arg(3), Arg(4))
        /\ OthersExcluded(Arg(3), Arg(4), Arg(1), Arg(2))

\* pairs((a, b), (c, d)), a and b of one category, has just removed the
\* edges of a third item of that category to c and to d
C17_Witness ==
    /\ Invoked("pairs")
    /\ category_of(Arg(1)) = category_of(Arg(2))
    /\ \E o \in ItemSet(category_of(Arg(1))) \ {Arg(1), Arg(2)} :
           /\ {o, Arg(3)} \in pre.G /\ {o, Arg(3)} \notin G
           /\ {o, Arg(4)} \in pre.G /\ {o, Arg(4)} \notin G

\* C18: when execute_rules returns normally, an item v whose only neighbor in
\* some other category is w has, in every third category, the neighbors of w
C18_MatchedShareInfo ==
    pc = "done" =>
        \A v \in all_items : \A c \in other_categories(v) :
            \A w \in neighbors(Cur, v, c) :
                neighbors(Cur, v, c) = {w} =>
                    \A t \in keys \ {category_of(v), c} :
                        neighbors(Cur, v, t) = neighbors(Cur, w, t)

\* execute_rules has returned, its passes removed edges, and some item with a
\* single neighbor in one category has several neighbors in a third one
C18_Witness ==
    /\ pc = "done"
    /\ G # start.G
    /\ \E v \in all_items : \E c \in other_categories(v) :
           \E w \in neighbors(Cur, v, c) :
               /\ neighbors(Cur, v, c) = {w}
               /\ \E t \in keys \ {category_of(v), c} :
                      /\ Cardinality(neighbors(Cur, v, t)) > 1
                      /\ neighbors(start, v, t) # neighbors(start, w, t)

\* the number K of slots of a puzzle whose categories have one size
K == Len(items[1].items)

\* the one-to-one maps of positions in a category to slots
Perms == {p \in [1..K -> 1..K] : \A i \in 1..K, j \in 1..K : i # j => p[i] # p[j]}

\* the full assignments: S[c][i] is the slot of item i of category c; slots
\* are named after the items of the first category
Assignments ==
    {S \in [1..NumCategories -> Perms] : S[1] = [i \in 1..K |-> i]}

\* the slot of item x in S
Slot(S, x) ==
    CHOOSE k \in 1..K :
        \E c \in 1..NumCategories : \E i \in 1..K : It(c, i) = x /\ S[c][i] = k

\* the pairs of items that share a slot in S
SlotEdges(S) ==
    {{It(q[1], q[3]), It(q[2], q[4])} :
        q \in {r \in (1..NumCategories) \X (1..NumCategories) \X (1..K) \X (1..K) :
                  r[1] < r[2] /\ S[r[1]][r[3]] = S[r[2]][r[4]]}}

\* the value of x in S: the item of the category in x's slot
Value(S, x, category) ==
    CHOOSE v \in ItemSet(category) : Slot(S, v) = Slot(S, x)

\* S satisfies the clue r
Satisfies(S, r) ==
    CASE r.kind = "either_or" ->
            (Slot(S, r.args[1]) = Slot(S, r.args[2]))
                # (Slot(S, r.args[1]) = Slot(S, r.args[3]))
      [] r.kind = "neither_nor" ->
            /\ Slot(S, r.args[1]) # Slot(S, r.args[2])
            /\ Slot(S, r.args[1]) # Slot(S, r.args[3])
            /\ Slot(S, r.args[2]) # Slot(S, r.args[3])
      [] r.kind = "mutually_exclusive" ->
            \A i \in 1..Len(r.args), j \in 1..Len(r.args) :
                i # j => Slot(S, r.args[i]) # Slot(S, r.args[j])
      [] r.kind = "pairs" ->
            {Slot(S, r.args[1]), Slot(S, r.args[2])}
                = {Slot(S, r.args[3]), Slot(S, r.args[4])}
      [] r.kind = "delta_comparison" ->
            /\ r.args[3] > 0
            /\ Value(S, r.args[2], r.cat) - Value(S, r.args[1], r.cat) = r.args[3]

\* the solutions: the full assignments that satisfy every registered clue
\* and whose pairs all had an edge when execute_rules was called
Solutions ==
    {S \in Assignments :
        /\ \A i \in 1..Len(rules) : Satisfies(S, rules[i])
        /\ SlotEdges(S) \subseteq start.G}

\* execute_rules has been called on a puzzle of K slots: distinct
\* identifiers, categories of one size
Solving ==
    /\ start # NoStart
    /\ Distinct
    /\ SizesEqual(input.categories)

FullyReduced ==
    \A v \in all_items : \A c \in other_categories(v) :
        Cardinality(neighbors(Cur, v, c)) = 1

\* C20: when execute_rules returns normally with every item left with exactly
\* one neighbor in every other category, the sole neighbor w of v in a
\* category has v as its sole neighbor in v's category and has v's sole
\* neighbor in every third category, so that every item and its neighbors
\* form a clique with one item of every category
C20_FullyReducedIsAssignment ==
    (pc = "done" /\ FullyReduced) =>
        \A v \in all_items : \A c \in other_categories(v) :
            \A w \in neighbors(Cur, v, c) :
                /\ neighbors(Cur, w, category_of(v)) = {v}
                /\ \A t \in keys \ {category_of(v), c} :
                       /\ neighbors(Cur, v, t) = neighbors(Cur, w, t)
                       /\ \A x \in neighbors(Cur, v, t) : {w, x} \in G

\* execute_rules has solved a puzzle of three categories: it has removed
\* edges and every item is left with one neighbor in every other category
C20_Witness ==
    /\ pc = "done"
    /\ FullyReduced
    /\ NumCategories >= 3
    /\ G # start.G

\* C21: when execute_rules returns normally, every answers entry of an item
\* a for a category that holds an item b has b as the one and only neighbor
\* of a in that category
C21_AnswersAreSoleNeighbors ==
    pc = "done" =>
        \A a \in DOMAIN answers : \A c \in DOMAIN answers[a] :
            answers[a][c] # None => neighbors(Cur, a, c) = {answers[a][c]}

\* execute_rules has returned normally with an answer that its rule calls or
\* reduce passes recorded
C21_Witness ==
    /\ pc = "done"
    /\ \E a \in DOMAIN answers : \E c \in DOMAIN answers[a] :
           answers[a][c] # None /\ start.answers[a][c] = None

\* C22: in a solve of a puzzle of distinct identifiers, no rule invocation
\* and no reduce pass changes an answers entry that holds an item to another
\* item
C22_AnswersNeverOverwritten ==
    [][(pc = "rules" /\ Distinct) =>
           \A a \in DOMAIN answers : \A c \in DOMAIN answers[a] :
               answers[a][c] # None => answers'[a][c] = answers[a][c]]_vars

====
